---- MODULE Spec2Model ----
(***************************************************************************)
(* Model of the ensemble decision engine of ai_diagnosis_ensemble.py:      *)
(* DiagnosisWeightingSystem (weights, branch selection, merge policies)    *)
(* and DiagnosisAPI.diagnose (dict conversion, 3-decimal rounding), and of *)
(* the classifier service of services/tf_model_service.py and              *)
(* services/tf_model_service_old.py (top-3 records, ResultValidator,       *)
(* test-time augmentation, analyze_with_tensorflow).                       *)
(*                                                                         *)
(* Numbers are exact fixed-point values:                                   *)
(*   confidence, top-k scores     hundredths  (97 is 0.97)                  *)
(*   image_quality                halves      (1 is 0.5)                    *)
(*   reasoning_quality            tenths      (8 is 0.8)                    *)
(*   class complexity             tenths      (3 is 0.3)                    *)
(*   raw weights                  numerators over WDen                      *)
(*   result confidence, weights   exact fractions [n |-> .., d |-> ..]      *)
(* The Thai strings of the source cannot be written in a TLA+ string; the   *)
(* localized healthy alias is written romanised ("phuet sukkhaphap di")     *)
(* and each Thai `reasoning` text is replaced by an ASCII key naming the    *)
(* return statement that produces it.                                       *)
(***************************************************************************)
EXTENDS Integers, Sequences, FiniteSets, TLC

VARIABLES
    cnn_result, kimi_result, image_quality,  \* the arguments of the call
    result,      \* what the engine call returned or raised
    response,    \* the dict returned by diagnose
    pc,          \* position of the request
    ensemble,    \* the DiagnosisWeightingSystem instance (self.ensemble)
    memo,        \* an earlier request on the same instance and its outcome
    float_ties,  \* the float rounding direction of the request being replayed
    float_max,   \* the labels whose float score is the largest in the score map
    tf_service,  \* the TensorFlowModelService singleton and the module it is from
    tf_call,     \* the arguments of a classifier call and what the image yields
    tf_result,   \* what the classifier call returned or raised
    tf_pc        \* position of the classifier call

engine_vars ==
    <<cnn_result, kimi_result, image_quality, result, response, pc, ensemble, memo, float_ties,
      float_max>>

service_vars == <<tf_service, tf_call, tf_result, tf_pc>>

vars == <<engine_vars, service_vars>>

\* Longest top_k list the inputs are drawn from.
MaxK == 2

Min(a, b) == IF a <= b THEN a ELSE b
Max(a, b) == IF a >= b THEN a ELSE b

\* Python None, and the value of result/response before any call.
NoneVal == [kind |-> "None"]
IsNone(x) == x.kind = "None"

\* An exact fraction n/d, d > 0.
Rat(n, d) == [n |-> n, d |-> d]

\* Denominator of the raw weights: thousandths * twentieths * fiftieths.
WDen == 1000 * 20 * 50

----------------------------------------------------------------------------
(* Labels *)

HealthyTH == "phuet sukkhaphap di"
KimiOnlySentinel == "No disease or pest found"
HealthySentinel == "No disease or pest found / phuet sukkhaphap di"

\* str.lower() on the labels the inputs are drawn from.
Lower(s) ==
    CASE s = "Healthy" -> "healthy"
      [] s = "NONE" -> "none"
      [] s = "None" -> "none"
      [] s = "No disease or pest found" -> "no disease or pest found"
      [] s = "No disease or pest found / phuet sukkhaphap di"
             -> "no disease or pest found / phuet sukkhaphap di"
      [] s = "Powdery Mildew" -> "powdery mildew"
      [] s = "Thrips" -> "thrips"
      [] s = "Leaf Curl" -> "leaf curl"
      [] OTHER -> s

\* self.class_complexity, in tenths; .get(cls, 0.5) gives 5 for other labels.
class_complexity ==
    [c \in {"Powdery Mildew", "Downy Mildew", "Anthracnose", "Cercospora Leaf Spot",
            "Rust Disease", "White Rust Disease", "Leaf Blight", "Leaf Spot Disease",
            "Bemisia tabaci", "Thrips", "Leaf Miner", "Diamondback Moth",
            "Flea Beetle", "Common Cutworm", "Red Pumpkin Beetle", "Leafhopper"} |->
        CASE c = "Powdery Mildew" -> 3
          [] c = "Downy Mildew" -> 6
          [] c = "Anthracnose" -> 5
          [] c = "Cercospora Leaf Spot" -> 5
          [] c = "Rust Disease" -> 4
          [] c = "White Rust Disease" -> 6
          [] c = "Leaf Blight" -> 4
          [] c = "Leaf Spot Disease" -> 5
          [] c = "Bemisia tabaci" -> 7
          [] c = "Thrips" -> 7
          [] c = "Leaf Miner" -> 5
          [] c = "Diamondback Moth" -> 6
          [] c = "Flea Beetle" -> 4
          [] c = "Common Cutworm" -> 4
          [] c = "Red Pumpkin Beetle" -> 5
          [] c = "Leafhopper" -> 6]

\* self.weights, in hundredths
weights ==
    [cnn_confidence |-> 30, kimi_certainty |-> 25, top_k_separation |-> 15,
     image_quality |-> 15, class_complexity |-> 15]

\* self.thresholds, in hundredths
thresholds ==
    [cnn_high_confidence |-> 85, cnn_medium_confidence |-> 60, cnn_uncertain |-> 40,
     kimi_uncertain_markers |-> <<"no disease", "not sure", "unclear", "cannot">>,
     ensemble_agreement_required |-> 70]

\* DiagnosisWeightingSystem.__init__: the instance after construction.
DiagnosisWeightingSystem ==
    [weights |-> weights, thresholds |-> thresholds, class_complexity |-> class_complexity]

\* self.class_complexity.get(cls, 0.5) on the instance's table.
complexity_get(cls) ==
    IF cls \in DOMAIN ensemble.class_complexity THEN ensemble.class_complexity[cls] ELSE 5

\* Mutant of the lookup: dict.setdefault(cls, 0.5) stores the default.
class_complexity_after_setdefault(table, cls) ==
    [c \in DOMAIN table \cup {cls} |-> IF c \in DOMAIN table THEN table[c] ELSE 5]

\* Mutant of the lookup: the table adapts, a class looked up becomes harder.
class_complexity_after_adapt(table, cls) ==
    IF cls \in DOMAIN table THEN [table EXCEPT ![cls] = Min(@ + 1, 10)] ELSE table

\* The table after self.class_complexity.get(cls, 0.5): dict.get stores nothing.
class_complexity_after_get(table, cls) == table

\* The table after the lookups of the labels in keys, in order.
RECURSIVE class_complexity_after_gets(_, _)
class_complexity_after_gets(table, keys) ==
    IF keys = <<>> THEN table
    ELSE class_complexity_after_gets(class_complexity_after_get(table, Head(keys)),
                                     Tail(keys))

----------------------------------------------------------------------------
(* Weights *)

\* Mutant of get_top_confidence_gap: a list with no second entry has gap 0.
get_top_confidence_gap_zero_default(top_k) ==
    IF Len(top_k) >= 2 THEN top_k[1][2] - top_k[2][2] ELSE 0

\* CNNPrediction.get_top_confidence_gap, in hundredths.
get_top_confidence_gap(top_k) ==
    IF Len(top_k) >= 2 THEN top_k[1][2] - top_k[2][2] ELSE 100

\* Mutant of line 134: complexity_factor = 1 + complexity * 0.2, a harder
\* class weighs more.
calculate_cnn_weight_harder_heavier(cnn_pred, quality) ==
    LET base_score == cnn_pred.confidence
        separation_bonus == Min(get_top_confidence_gap(cnn_pred.top_k) * 2, 100)
        quality_factor == 14 + 3 * quality
        complexity == complexity_get(cnn_pred.predicted_class)
        complexity_factor == 50 + complexity
        final_weight == (base_score * 7 + separation_bonus) * quality_factor * complexity_factor
    IN  Min(final_weight, WDen)

\* calculate_cnn_weight: numerator over WDen.
\*   base_score * 0.7 + separation_bonus     thousandths
\*   quality_factor = 0.7 + 0.3 * quality     twentieths
\*   complexity_factor = 1 - complexity * 0.2 fiftieths
calculate_cnn_weight(cnn_pred, quality) ==
    LET base_score == cnn_pred.confidence
        separation_bonus == Min(get_top_confidence_gap(cnn_pred.top_k) * 2, 100)
        quality_factor == 14 + 3 * quality
        complexity == complexity_get(cnn_pred.predicted_class)
        complexity_factor == 50 - complexity
        final_weight == (base_score * 7 + separation_bonus) * quality_factor * complexity_factor
    IN  Min(final_weight, WDen)

\* Mutant of line 166: a classifier confidence of exactly 0.9 is penalized too.
calculate_kimi_weight_penalty_inclusive(kimi_pred, cnn_pred) ==
    IF kimi_pred.is_uncertain THEN WDen \div 5
    ELSE
        LET quality_bonus == kimi_pred.reasoning_quality * 15
            complexity == complexity_get(kimi_pred.predicted_class)
            complexity_factor == 40 + complexity
            disagreement_penalty ==
                IF /\ ~IsNone(cnn_pred)
                   /\ cnn_pred.confidence >= 90
                   /\ cnn_pred.predicted_class # kimi_pred.predicted_class
                THEN 7500 ELSE 0
            final_weight == ((750 + quality_bonus) * complexity_factor - disagreement_penalty) * 20
        IN  Max(WDen \div 5, Min(final_weight, WDen))

\* calculate_kimi_weight: numerator over WDen.
\*   base_score + quality_bonus = 0.75 + q * 0.15   thousandths
\*   complexity_factor = 0.8 + complexity * 0.2     fiftieths
\*   disagreement_penalty = 0.15 = 7500 / 50000
calculate_kimi_weight(kimi_pred, cnn_pred) ==
    IF kimi_pred.is_uncertain THEN WDen \div 5
    ELSE
        LET quality_bonus == kimi_pred.reasoning_quality * 15
            complexity == complexity_get(kimi_pred.predicted_class)
            complexity_factor == 40 + complexity
            disagreement_penalty ==
                IF /\ ~IsNone(cnn_pred)
                   /\ cnn_pred.confidence > 90
                   /\ cnn_pred.predicted_class # kimi_pred.predicted_class
                THEN 7500 ELSE 0
            final_weight == ((750 + quality_bonus) * complexity_factor - disagreement_penalty) * 20
        IN  Max(WDen \div 5, Min(final_weight, WDen))

----------------------------------------------------------------------------
(* Decisions *)

EnsembleResult(final_diagnosis, confidence, source, cnn_weight, kimi_weight, reasoning) ==
    [kind |-> "EnsembleResult",
     final_diagnosis |-> final_diagnosis,
     confidence |-> confidence,
     source |-> source,
     cnn_weight |-> cnn_weight,
     kimi_weight |-> kimi_weight,
     reasoning |-> reasoning]

\* An exception leaving the call.
Raised(name) == [kind |-> "error", error |-> name]

\* Mutant of _cnn_only_result: the medium tier starts strictly above 0.60.
cnn_only_result_strict_medium(cnn_pred) ==
    LET confidence == cnn_pred.confidence
    IN  IF confidence >= 85
        THEN EnsembleResult(cnn_pred.predicted_class, Rat(confidence, 100), "cnn",
                            Rat(1, 1), Rat(0, 1), "cnn_high")
        ELSE IF confidence > 60
        THEN EnsembleResult(cnn_pred.predicted_class, Rat(confidence, 100), "cnn",
                            Rat(1, 1), Rat(0, 1), "cnn_medium")
        ELSE EnsembleResult(cnn_pred.predicted_class, Rat(confidence * 7, 1000), "cnn",
                            Rat(1, 1), Rat(0, 1), "cnn_low")

\* _cnn_only_result
cnn_only_result(cnn_pred) ==
    LET confidence == cnn_pred.confidence
    IN  IF confidence >= ensemble.thresholds.cnn_high_confidence
        THEN EnsembleResult(cnn_pred.predicted_class, Rat(confidence, 100), "cnn",
                            Rat(1, 1), Rat(0, 1), "cnn_high")
        ELSE IF confidence >= ensemble.thresholds.cnn_medium_confidence
        THEN EnsembleResult(cnn_pred.predicted_class, Rat(confidence, 100), "cnn",
                            Rat(1, 1), Rat(0, 1), "cnn_medium")
        ELSE EnsembleResult(cnn_pred.predicted_class, Rat(confidence * 7, 1000), "cnn",
                            Rat(1, 1), Rat(0, 1), "cnn_low")

\* Mutant of _kimi_only_result: an uncertain answer keeps its own label.
kimi_only_result_keeps_label(kimi_pred) ==
    IF kimi_pred.is_uncertain
    THEN EnsembleResult(kimi_pred.predicted_class, Rat(5, 10), "kimi",
                        Rat(0, 1), Rat(1, 1), "kimi_uncertain")
    ELSE EnsembleResult(kimi_pred.predicted_class, Rat(75, 100), "kimi",
                        Rat(0, 1), Rat(1, 1), "kimi_only")

\* _kimi_only_result
kimi_only_result(kimi_pred) ==
    IF kimi_pred.is_uncertain
    THEN EnsembleResult(KimiOnlySentinel, Rat(5, 10), "kimi",
                        Rat(0, 1), Rat(1, 1), "kimi_uncertain")
    ELSE EnsembleResult(kimi_pred.predicted_class, Rat(75, 100), "kimi",
                        Rat(0, 1), Rat(1, 1), "kimi_only")

\* Mutant of line 262: the alias test without .lower().
is_kimi_healthy_case_sensitive(kimi_pred) ==
    \/ kimi_pred.is_uncertain
    \/ kimi_pred.predicted_class \in
           {"none", "healthy", "no disease or pest found", HealthyTH}

\* _ensemble_both, line 262
is_kimi_healthy(kimi_pred) ==
    \/ kimi_pred.is_uncertain
    \/ Lower(kimi_pred.predicted_class) \in
           {"none", "healthy", "no disease or pest found", HealthyTH}

\* Mutant of lines 270-283: the classifier's confidence is not halved.
healthy_override_not_halved(cnn_pred, kimi_pred) ==
    IF cnn_pred.confidence > 95
    THEN EnsembleResult(cnn_pred.predicted_class, Rat(cnn_pred.confidence, 100),
                        "ensemble", Rat(7, 10), Rat(3, 10), "healthy_cnn_over_95")
    ELSE EnsembleResult(HealthySentinel, Rat(85, 100),
                        "ensemble", Rat(1, 10), Rat(9, 10), "healthy_kimi_trusted")

\* Mutant of line 270: the threshold 0.95 itself counts as high confidence.
healthy_override_inclusive(cnn_pred, kimi_pred) ==
    IF cnn_pred.confidence >= 95
    THEN EnsembleResult(cnn_pred.predicted_class, Rat(cnn_pred.confidence * 5, 1000),
                        "ensemble", Rat(7, 10), Rat(3, 10), "healthy_cnn_over_95")
    ELSE EnsembleResult(HealthySentinel, Rat(85, 100),
                        "ensemble", Rat(1, 10), Rat(9, 10), "healthy_kimi_trusted")

\* _ensemble_both, lines 264-296: the healthy override
healthy_override(cnn_pred, kimi_pred) ==
    IF cnn_pred.confidence > 95
    THEN EnsembleResult(cnn_pred.predicted_class, Rat(cnn_pred.confidence * 5, 1000),
                        "ensemble", Rat(7, 10), Rat(3, 10), "healthy_cnn_over_95")
    ELSE EnsembleResult(HealthySentinel, Rat(85, 100),
                        "ensemble", Rat(1, 10), Rat(9, 10), "healthy_kimi_trusted")

\* Mutant of line 300: the floor max(confidence, 0.75) is forgotten.
agreement_confidence_no_floor(cnn_pred) ==
    Min(95, cnn_pred.confidence + 15)

\* Mutant of line 300: the cap min(0.95, ..) is forgotten.
agreement_confidence_no_cap(cnn_pred) ==
    Max(cnn_pred.confidence, 75) + 15

\* _ensemble_both, line 300, in hundredths
agreement_confidence(cnn_pred) ==
    Min(95, Max(cnn_pred.confidence, 75) + 15)

\* The keys of `scores` in insertion order (lines 318-322): the top_k labels
\* in rank order without repetition, then the KIMI label if it is new.
RECURSIVE top_k_keys(_, _)
top_k_keys(top_k, seen) ==
    IF top_k = <<>> THEN seen
    ELSE LET cls == Head(top_k)[1]
         IN  top_k_keys(Tail(top_k),
                        IF \E i \in 1..Len(seen) : seen[i] = cls
                        THEN seen ELSE Append(seen, cls))

score_keys(top_k, kimi_class) ==
    LET ks == top_k_keys(top_k, <<>>)
    IN  IF \E i \in 1..Len(ks) : ks[i] = kimi_class THEN ks ELSE Append(ks, kimi_class)

\* Sum of score * cnn_weight over the top_k entries of class cls (line 319).
RECURSIVE cnn_score(_, _, _)
cnn_score(top_k, cls, cnn_weight) ==
    IF top_k = <<>> THEN 0
    ELSE (IF Head(top_k)[1] = cls THEN Head(top_k)[2] * cnn_weight ELSE 0)
         + cnn_score(Tail(top_k), cls, cnn_weight)

\* Mutant of line 322: the language model's weight is added undamped (1.0
\* for 0.8).
class_score_undamped(cls, top_k, kimi_class, cnn_weight, kimi_weight) ==
    cnn_score(top_k, cls, cnn_weight)
    + (IF cls = kimi_class THEN 100 * kimi_weight ELSE 0)

\* scores[cls] after line 322: numerator over 100 * (cnn_weight + kimi_weight),
\* with the raw weights cnn_weight, kimi_weight (0.8 is 80 hundredths).
class_score(cls, top_k, kimi_class, cnn_weight, kimi_weight) ==
    cnn_score(top_k, cls, cnn_weight)
    + (IF cls = kimi_class THEN 80 * kimi_weight ELSE 0)

\* The scores of the top_k entries listed under cls, in order: the terms
\* line 319 adds up for the label.
RECURSIVE top_k_scores_of(_, _)
top_k_scores_of(top_k, cls) ==
    IF top_k = <<>> THEN <<>>
    ELSE (IF Head(top_k)[1] = cls THEN <<Head(top_k)[2]>> ELSE <<>>)
         \o top_k_scores_of(Tail(top_k), cls)

\* Two labels whose scores are the same float: the same terms were added in
\* the same order.  The language model's label has a term of its own.
same_float(a, b, top_k, kimi_class) ==
    \/ a = b
    \/ /\ a # kimi_class /\ b # kimi_class
       /\ top_k_scores_of(top_k, a) = top_k_scores_of(top_k, b)

\* The sets of labels whose float score may be the largest of the map.
\* Scores are exact here, the program's are floats: labels whose exact scores
\* tie on the maximum may compare equal, or either way by a rounding error,
\* unless they are the same float.  A score below the exact maximum stays
\* below it.
float_max_choices(keys, top_k, kimi_class, cnn_weight, kimi_weight) ==
    LET sc(cls) == class_score(cls, top_k, kimi_class, cnn_weight, kimi_weight)
        top == {keys[i] : i \in {i \in 1..Len(keys) :
                                    \A j \in 1..Len(keys) : sc(keys[j]) <= sc(keys[i])}}
    IN  {m \in SUBSET top :
            /\ m # {}
            /\ \A a \in m, b \in top : same_float(a, b, top_k, kimi_class) => b \in m}

\* Mutant of line 325: of the keys with the largest score the last wins.
final_class_of_last(keys) ==
    LET best == CHOOSE i \in 1..Len(keys) :
                    /\ keys[i] \in float_max
                    /\ \A j \in (i + 1)..Len(keys) : keys[j] \notin float_max
    IN  keys[best]

\* max(scores, key=scores.get): the first key, in insertion order, whose
\* score is the largest (line 325).
final_class_of(keys) ==
    LET best == CHOOSE i \in 1..Len(keys) :
                    /\ keys[i] \in float_max
                    /\ \A j \in 1..(i - 1) : keys[j] \notin float_max
    IN  keys[best]

\* Mutant of lines 256-259: the weights are left unnormalized.
normalize_skipped(weight, total) == Rat(weight, WDen)

\* _ensemble_both, lines 256-259: a raw weight divided by the total.
normalize(weight, total) == Rat(weight, total)

\* _ensemble_both
ensemble_both(cnn_pred, kimi_pred, quality) ==
    IF IsNone(cnn_pred) THEN Raised("AttributeError")
    ELSE
    LET cw == calculate_cnn_weight(cnn_pred, quality)
        kw == calculate_kimi_weight(kimi_pred, cnn_pred)
        total == cw + kw
    IN  IF total = 0 THEN Raised("ZeroDivisionError")
        ELSE IF is_kimi_healthy(kimi_pred) THEN healthy_override(cnn_pred, kimi_pred)
        ELSE IF cnn_pred.predicted_class = kimi_pred.predicted_class
        THEN EnsembleResult(cnn_pred.predicted_class,
                            Rat(agreement_confidence(cnn_pred), 100), "ensemble",
                            normalize(cw, total), normalize(kw, total), "agree")
        ELSE
        LET keys == score_keys(cnn_pred.top_k, kimi_pred.predicted_class)
            final_class == final_class_of(keys)
            final_confidence == class_score(final_class, cnn_pred.top_k,
                                            kimi_pred.predicted_class, cw, kw)
        IN  EnsembleResult(final_class, Rat(final_confidence, 100 * total), "ensemble",
                           normalize(cw, total), normalize(kw, total), "disagree")

\* Mutant of line 187: the second test reads "kimi_pred and cnn_pred".
decide_ensemble_wrong_test(cnn_pred, kimi_pred, quality) ==
    IF ~IsNone(cnn_pred) /\ IsNone(kimi_pred) THEN cnn_only_result(cnn_pred)
    ELSE IF ~IsNone(kimi_pred) /\ ~IsNone(cnn_pred) THEN kimi_only_result(kimi_pred)
    ELSE ensemble_both(cnn_pred, kimi_pred, quality)

\* decide_ensemble
decide_ensemble(cnn_pred, kimi_pred, quality) ==
    IF ~IsNone(cnn_pred) /\ IsNone(kimi_pred) THEN cnn_only_result(cnn_pred)
    ELSE IF ~IsNone(kimi_pred) /\ IsNone(cnn_pred) THEN kimi_only_result(kimi_pred)
    ELSE ensemble_both(cnn_pred, kimi_pred, quality)

\* What float_max may be for a call on these predictions: a choice of
\* float_max_choices when the call builds the score map (lines 313-325), the
\* empty set when it returns or raises before.
score_map_outcomes(cnn_pred, kimi_pred, quality) ==
    IF IsNone(cnn_pred) \/ IsNone(kimi_pred) THEN {{}}
    ELSE IF calculate_cnn_weight(cnn_pred, quality)
            + calculate_kimi_weight(kimi_pred, cnn_pred) = 0 THEN {{}}
    ELSE IF is_kimi_healthy(kimi_pred) THEN {{}}
    ELSE IF cnn_pred.predicted_class = kimi_pred.predicted_class THEN {{}}
    ELSE float_max_choices(score_keys(cnn_pred.top_k, kimi_pred.predicted_class),
                           cnn_pred.top_k, kimi_pred.predicted_class,
                           calculate_cnn_weight(cnn_pred, quality),
                           calculate_kimi_weight(kimi_pred, cnn_pred))

----------------------------------------------------------------------------
(* DiagnosisAPI.diagnose *)

\* diagnose, lines 369-376: cnn_result dict (or None) to CNNPrediction.
to_cnn_pred(d) ==
    IF IsNone(d) THEN NoneVal
    ELSE [kind |-> "CNNPrediction",
          predicted_class |-> d.class,
          confidence |-> d.confidence,
          top_k |-> IF d.has_top_k THEN d.top_k ELSE << <<d.class, d.confidence>> >>]

\* diagnose, lines 378-386: kimi_result dict (or None) to KimiPrediction.
to_kimi_pred(d) ==
    IF IsNone(d) THEN NoneVal
    ELSE [kind |-> "KimiPrediction",
          predicted_class |-> d.class,
          is_uncertain |-> IF d.has_is_uncertain THEN d.is_uncertain ELSE FALSE,
          reasoning_quality |-> IF d.has_reasoning_quality THEN d.reasoning_quality ELSE 8]

\* round(x, 3) of the fraction x, in thousandths.  Python rounds the binary
\* float, which holds x only up to a rounding error: a value exactly halfway
\* between two thousandths goes up or down with the sign of that error
\* (tie_up), every other value goes to the nearest thousandth.  The sign is
\* fixed by the inputs, unknown to the model.
round3(x, tie_up) ==
    LET q  == x.n \div x.d
        r0 == x.n % x.d
        d1 == (r0 * 10) \div x.d
        r1 == (r0 * 10) % x.d
        d2 == (r1 * 10) \div x.d
        r2 == (r1 * 10) % x.d
        d3 == (r2 * 10) \div x.d
        r3 == (r2 * 10) % x.d
        t  == q * 1000 + d1 * 100 + d2 * 10 + d3
    IN  IF 2 * r3 > x.d THEN t + 1
        ELSE IF 2 * r3 = x.d /\ tie_up THEN t + 1
        ELSE t

\* diagnose, lines 391-405: the returned dict.
to_response(res, cnn_dict, kimi_dict, ties) ==
    IF res.kind = "error" THEN res
    ELSE [kind |-> "dict",
          diagnosis |-> res.final_diagnosis,
          confidence |-> round3(res.confidence, ties[1]),
          source |-> res.source,
          weights |-> [cnn |-> round3(res.cnn_weight, ties[2]),
                      kimi |-> round3(res.kimi_weight, ties[3])],
          details |-> [cnn_prediction |-> IF IsNone(cnn_dict) THEN "None" ELSE cnn_dict.class,
                       kimi_prediction |-> IF IsNone(kimi_dict) THEN "None" ELSE kimi_dict.class],
          reasoning |-> res.reasoning]

----------------------------------------------------------------------------
(* Inputs *)

CnnClasses == {"Powdery Mildew", "Thrips", "Leaf Curl"}
TopKClasses == {"Powdery Mildew", "Thrips"}
KimiClasses == {"Powdery Mildew", "Thrips", "Healthy", "NONE",
                KimiOnlySentinel, HealthySentinel, HealthyTH}
Confidences == {-50, 0, 30, 60, 85, 90, 95, 97, 100}
Scores == {0, 55, 60, 100}
ImageQualities == {0, 2}
ReasoningQualities == {0, 10}

\* top_k lists of at most MaxK (label, score) pairs, scores descending.
TopKs ==
    UNION {{t \in [1..k -> TopKClasses \X Scores] :
                \A i \in 1..(k - 1) : t[i][2] >= t[i + 1][2]} : k \in 0..MaxK}

CnnDicts ==
    [kind : {"dict"}, class : CnnClasses, confidence : Confidences,
     has_top_k : {TRUE}, top_k : TopKs]
    \cup
    [kind : {"dict"}, class : CnnClasses, confidence : Confidences,
     has_top_k : {FALSE}, top_k : {<<>>}]

KimiDicts ==
    [kind : {"dict"}, class : KimiClasses,
     has_is_uncertain : {TRUE}, is_uncertain : BOOLEAN,
     has_reasoning_quality : {TRUE}, reasoning_quality : ReasoningQualities]
    \cup
    [kind : {"dict"}, class : KimiClasses,
     has_is_uncertain : {FALSE}, is_uncertain : {FALSE},
     has_reasoning_quality : {FALSE}, reasoning_quality : {8}]

----------------------------------------------------------------------------
(* State machine: requests on one DiagnosisAPI instance, each a call of    *)
(* calculate_cnn_weight, calculate_kimi_weight, decide_ensemble or         *)
(* diagnose on inputs chosen by the caller.                                *)

cnn_pred == to_cnn_pred(cnn_result)
kimi_pred == to_kimi_pred(kimi_result)

\* No classifier call is in progress: the request uses the engine alone.
ServiceUnused ==
    /\ tf_service = NoneVal
    /\ tf_call = NoneVal
    /\ tf_result = NoneVal
    /\ tf_pc = "unused"

\* The labels decide_ensemble looks up in class_complexity, in order:
\* _ensemble_both calls both weight functions, the single-source branches
\* neither; calculate_kimi_weight returns before its lookup when uncertain.
complexity_lookups(cnn, kimi) ==
    IF IsNone(cnn) \/ IsNone(kimi) THEN <<>>
    ELSE <<cnn.predicted_class>>
         \o (IF kimi.is_uncertain THEN <<>> ELSE <<kimi.predicted_class>>)

\* The rounding directions a diagnose call may take.
TieChoices == IF IsNone(float_ties) THEN [1..3 -> BOOLEAN] ELSE {float_ties.up}

\* One request on a fresh instance.
Init ==
    /\ cnn_result \in CnnDicts \cup {NoneVal}
    /\ kimi_result \in KimiDicts \cup {NoneVal}
    /\ image_quality \in ImageQualities
    /\ result = NoneVal
    /\ response = NoneVal
    /\ pc = "idle"
    /\ ensemble = DiagnosisWeightingSystem
    /\ memo = NoneVal
    /\ float_ties = NoneVal
    /\ float_max \in score_map_outcomes(cnn_pred, kimi_pred, image_quality)
    /\ ServiceUnused

\* A direct call calculate_cnn_weight(cnn_pred, image_quality).
CalculateCnnWeight ==
    /\ pc = "idle"
    /\ result' = IF IsNone(cnn_pred) THEN Raised("AttributeError")
                 ELSE [kind |-> "float",
                       n |-> calculate_cnn_weight(cnn_pred, image_quality), d |-> WDen]
    /\ ensemble' = IF IsNone(cnn_pred) THEN ensemble
                   ELSE [ensemble EXCEPT !.class_complexity =
                            class_complexity_after_get(@, cnn_pred.predicted_class)]
    /\ pc' = "cnn_weighed"
    /\ UNCHANGED <<cnn_result, kimi_result, image_quality, response, memo, float_ties, float_max>>
    /\ UNCHANGED service_vars

\* A direct call calculate_kimi_weight(kimi_pred, cnn_pred).
CalculateKimiWeight ==
    /\ pc = "idle"
    /\ result' = IF IsNone(kimi_pred) THEN Raised("AttributeError")
                 ELSE [kind |-> "float",
                       n |-> calculate_kimi_weight(kimi_pred, cnn_pred), d |-> WDen]
    /\ ensemble' = IF IsNone(kimi_pred) \/ kimi_pred.is_uncertain THEN ensemble
                   ELSE [ensemble EXCEPT !.class_complexity =
                            class_complexity_after_get(@, kimi_pred.predicted_class)]
    /\ pc' = "kimi_weighed"
    /\ UNCHANGED <<cnn_result, kimi_result, image_quality, response, memo, float_ties, float_max>>
    /\ UNCHANGED service_vars

\* A direct call decide_ensemble(cnn_pred, kimi_pred, image_quality).
DecideEnsemble ==
    /\ pc = "idle"
    /\ result' = decide_ensemble(cnn_pred, kimi_pred, image_quality)
    /\ ensemble' = [ensemble EXCEPT !.class_complexity =
                       class_complexity_after_gets(@, complexity_lookups(cnn_pred, kimi_pred))]
    /\ pc' = "decided"
    /\ UNCHANGED <<cnn_result, kimi_result, image_quality, response, memo, float_ties, float_max>>
    /\ UNCHANGED service_vars

\* A call DiagnosisAPI.diagnose(image_path, cnn_result, kimi_result, image_quality).
Diagnose ==
    /\ pc = "idle"
    /\ result' = decide_ensemble(cnn_pred, kimi_pred, image_quality)
    /\ ensemble' = [ensemble EXCEPT !.class_complexity =
                       class_complexity_after_gets(@, complexity_lookups(cnn_pred, kimi_pred))]
    /\ \E ties \in TieChoices :
           response' = to_response(result', cnn_result, kimi_result, ties)
    /\ pc' = "responded"
    /\ UNCHANGED <<cnn_result, kimi_result, image_quality, memo, float_ties, float_max>>
    /\ UNCHANGED service_vars

Next == CalculateCnnWeight \/ CalculateKimiWeight \/ DecideEnsemble \/ Diagnose

Spec == Init /\ [][Next]_vars

\* Requests follow one another on the same instance.  The inputs are a
\* small part of the input sets, so that pairs of requests can be compared.
MaxBetween == 2

HistoryCnnDicts ==
    {d \in CnnDicts : /\ ~d.has_top_k
                      /\ d.class \in {"Thrips", "Leaf Curl"}
                      /\ d.confidence \in {60, 97}}

HistoryKimiDicts ==
    {d \in KimiDicts : /\ d.class \in {"Powdery Mildew", "Thrips"}
                       /\ \/ ~d.has_is_uncertain
                          \/ d.is_uncertain /\ d.reasoning_quality = 0}

HistoryImageQualities == {2}

\* The first request of an instance.  Python's float arithmetic rounds an
\* exact half the same way whenever the inputs are the same: the direction
\* is fixed for the behaviour.
InitHistory ==
    /\ cnn_result \in HistoryCnnDicts \cup {NoneVal}
    /\ kimi_result \in HistoryKimiDicts \cup {NoneVal}
    /\ image_quality \in HistoryImageQualities
    /\ result = NoneVal
    /\ response = NoneVal
    /\ pc = "idle"
    /\ ensemble = DiagnosisWeightingSystem
    /\ memo = NoneVal
    /\ float_ties \in [kind : {"ties"}, up : [1..3 -> BOOLEAN]]
    /\ float_max \in score_map_outcomes(cnn_pred, kimi_pred, image_quality)
    /\ ServiceUnused

\* The finished request and its outcome.
finished_request ==
    [kind |-> "request", pc |-> pc, cnn_result |-> cnn_result, kimi_result |-> kimi_result,
     image_quality |-> image_quality, result |-> result, response |-> response,
     float_max |-> float_max, between |-> 0]

\* The caller issues the next request on the same instance; an observer may
\* remember the finished one, and counts the requests issued since.  Equal
\* inputs give equal floats: a remembered request fixes float_max for a
\* request with its inputs.
NextRequest ==
    /\ pc \in {"decided", "responded"}
    /\ IF IsNone(memo) THEN TRUE ELSE memo.between < MaxBetween
    /\ memo' \in IF IsNone(memo)
                 THEN {memo, [finished_request EXCEPT !.between = 1]}
                 ELSE {[memo EXCEPT !.between = @ + 1]}
    /\ cnn_result' \in HistoryCnnDicts \cup {NoneVal}
    /\ kimi_result' \in HistoryKimiDicts \cup {NoneVal}
    /\ image_quality' \in HistoryImageQualities
    /\ float_max' \in score_map_outcomes(to_cnn_pred(cnn_result'), to_kimi_pred(kimi_result'),
                                          image_quality')
    /\ (/\ ~IsNone(memo') /\ memo'.cnn_result = cnn_result'
        /\ memo'.kimi_result = kimi_result' /\ memo'.image_quality = image_quality')
          => float_max' = memo'.float_max
    /\ result' = NoneVal
    /\ response' = NoneVal
    /\ pc' = "idle"
    /\ UNCHANGED <<ensemble, float_ties>>
    /\ UNCHANGED service_vars

NextHistory == DecideEnsemble \/ Diagnose \/ NextRequest

SpecHistory == InitHistory /\ [][NextHistory]_vars

----------------------------------------------------------------------------
(* Classifier service: services/tf_model_service.py (module "round3", the  *)
(* one routes and tests import) and services/tf_model_service_old.py       *)
(* (module "old").  Probabilities are exact: a probability vector is       *)
(* [kind |-> "ndarray", den |-> d, vals |-> seq] holding vals[i] / d for   *)
(* class index i, a single forward pass has d = 100.  Of a top-3 record    *)
(* the fields class_name, confidence and category are kept; name_th,       *)
(* name_en, type and confidence_percent are copies of these or of          *)
(* CLASS_MAPPING and are left out, as are log lines.                       *)

\* The forward passes of predict_with_tta: original, two flips, two rotations.
NumViews == 5

DiseaseClasses ==
    {"Anthracnose", "Cercospora Leaf Spot", "Downy Mildew", "Leaf Blight",
     "Leaf Spot Disease", "Powdery Mildew", "Rust Disease", "White Rust Disease"}

PestClasses ==
    {"Bemisia tabaci", "Common Cutworm", "Diamondback Moth", "Flea Beetle",
     "Leaf Miner", "Leafhopper", "Red Pumpkin Beetle", "Thrips"}

\* CLASS_MAPPING, the same in both modules.
CLASS_MAPPING ==
    [c \in DiseaseClasses \cup PestClasses |->
        [category |-> IF c \in DiseaseClasses THEN "disease" ELSE "pest"]]

\* list(CLASS_MAPPING.keys())
ClassNames ==
    <<"Anthracnose", "Bemisia tabaci", "Cercospora Leaf Spot", "Common Cutworm",
      "Diamondback Moth", "Downy Mildew", "Flea Beetle", "Leaf Blight",
      "Leaf Miner", "Leaf Spot Disease", "Leafhopper", "Powdery Mildew",
      "Red Pumpkin Beetle", "Rust Disease", "Thrips", "White Rust Disease">>

\* CLASS_NAMES read from class_names_round3.json when it lists a label that
\* CLASS_MAPPING does not have.
JsonClassNames == [ClassNames EXCEPT ![16] = "Leaf Curl"]

\* ResultValidator.DISEASE_LOOKING_LIKE_PEST / PEST_LOOKING_LIKE_DISEASE
DISEASE_LOOKING_LIKE_PEST(module) ==
    IF module = "round3"
    THEN {"Leaf Spot Disease", "Leaf Blight", "Cercospora Leaf Spot"}
    ELSE {"Leaf_Spot_Disease", "Leaf_Blight", "Cercospora_Leaf"}

PEST_LOOKING_LIKE_DISEASE(module) ==
    IF module = "round3"
    THEN {"Leaf Miner", "Flea Beetle"}
    ELSE {"Leaf_Miner", "flea_beetle"}

\* Mutant of the category lookup: a label without an entry counts as a disease.
category_get_default_disease(class_name) ==
    IF class_name \in DOMAIN CLASS_MAPPING THEN CLASS_MAPPING[class_name].category
    ELSE "disease"

\* CLASS_MAPPING.get(class_name, {}).get("category", "unknown")
category_get(class_name) ==
    IF class_name \in DOMAIN CLASS_MAPPING THEN CLASS_MAPPING[class_name].category
    ELSE "unknown"

RatLt(x, y) == x.n * y.d < y.n * x.d

\* The indices outside `excluded` whose value is largest.
ArgMax(vals, excluded) ==
    {i \in DOMAIN vals \ excluded : \A j \in DOMAIN vals \ excluded : vals[j] <= vals[i]}

\* np.argsort(pred_probs)[-3:][::-1]: the three largest, largest first.  The
\* sort is not stable, so equal values come in either order: every outcome.
\* The values are the float32 probabilities (as bit patterns).
top_3_indices(vals) ==
    UNION {UNION {{<<i, j, k>> : k \in ArgMax(vals, {i, j})} :
                        j \in ArgMax(vals, {i})} :
                 i \in ArgMax(vals, {})}

\* The top-3 records built from the indices.
top_3_results(pred_probs, names, idxs) ==
    [r \in 1..3 |->
        [class_name |-> names[idxs[r]],
         confidence |-> Rat(pred_probs.vals[idxs[r]], pred_probs.den),
         category |-> category_get(names[idxs[r]])]]

\* The sum of the probabilities of the first n classes that are of `category`.
RECURSIVE category_confidence(_, _, _, _)
category_confidence(vals, names, category, n) ==
    IF n = 0 THEN 0
    ELSE (IF category_get(names[n]) = category THEN vals[n] ELSE 0)
         + category_confidence(vals, names, category, n - 1)

\* Mutant of the validator: a category conflict is rated high up to a gap of
\* 0.25.
validate_prediction_consistency_wide_high(module, results, pred_probs, names) ==
    IF Len(results) < 2 THEN [is_consistent |-> TRUE, warnings |-> <<>>]
    ELSE
    LET primary == results[1]
        secondary == results[2]
        category_conflict ==
            /\ primary.category # secondary.category
            /\ primary.category \in {"disease", "pest"}
            /\ secondary.category \in {"disease", "pest"}
        gap_n == IF primary.confidence.n >= secondary.confidence.n
                 THEN primary.confidence.n - secondary.confidence.n
                 ELSE secondary.confidence.n - primary.confidence.n
        confidence_gap == Rat(gap_n, pred_probs.den)
        conflict_warnings ==
            IF ~category_conflict THEN <<>>
            ELSE IF RatLt(confidence_gap, Rat(25, 100))
            THEN <<[type |-> "category_conflict", level |-> "high"]>>
            ELSE IF RatLt(confidence_gap, Rat(30, 100))
            THEN <<[type |-> "category_conflict", level |-> "medium"]>>
            ELSE <<>>
        look_alike_warnings ==
            IF /\ primary.class_name \in DISEASE_LOOKING_LIKE_PEST(module)
               /\ primary.category = "disease"
            THEN IF \E r \in 1..Len(results) : results[r].category = "pest"
                 THEN <<[type |-> "look_alike", level |-> "medium"]>> ELSE <<>>
            ELSE IF /\ primary.class_name \in PEST_LOOKING_LIKE_DISEASE(module)
                    /\ primary.category = "pest"
            THEN IF \E r \in 1..Len(results) : results[r].category = "disease"
                 THEN <<[type |-> "look_alike", level |-> "medium"]>> ELSE <<>>
            ELSE <<>>
        warnings == conflict_warnings \o look_alike_warnings
        disease_confidence ==
            category_confidence(pred_probs.vals, names, "disease", Len(names))
        pest_confidence ==
            category_confidence(pred_probs.vals, names, "pest", Len(names))
    IN  [is_consistent |-> Len(warnings) = 0,
         warnings |-> warnings,
         category_analysis |->
            [disease_total_confidence |-> Rat(disease_confidence, pred_probs.den),
             pest_total_confidence |-> Rat(pest_confidence, pred_probs.den),
             predicted_category |-> primary.category,
             category_confidence_ratio |->
                IF disease_confidence + pest_confidence = 0 THEN Rat(0, 1)
                ELSE Rat(Max(disease_confidence, pest_confidence),
                         disease_confidence + pest_confidence)],
         has_category_conflict |-> category_conflict]

\* Mutant of the validator: any category conflict makes the report
\* inconsistent, whether or not it raised a warning.
validate_prediction_consistency_conflict_inconsistent(module, results, pred_probs, names) ==
    IF Len(results) < 2 THEN [is_consistent |-> TRUE, warnings |-> <<>>]
    ELSE
    LET primary == results[1]
        secondary == results[2]
        category_conflict ==
            /\ primary.category # secondary.category
            /\ primary.category \in {"disease", "pest"}
            /\ secondary.category \in {"disease", "pest"}
        gap_n == IF primary.confidence.n >= secondary.confidence.n
                 THEN primary.confidence.n - secondary.confidence.n
                 ELSE secondary.confidence.n - primary.confidence.n
        confidence_gap == Rat(gap_n, pred_probs.den)
        conflict_warnings ==
            IF ~category_conflict THEN <<>>
            ELSE IF RatLt(confidence_gap, Rat(15, 100))
            THEN <<[type |-> "category_conflict", level |-> "high"]>>
            ELSE IF RatLt(confidence_gap, Rat(30, 100))
            THEN <<[type |-> "category_conflict", level |-> "medium"]>>
            ELSE <<>>
        look_alike_warnings ==
            IF /\ primary.class_name \in DISEASE_LOOKING_LIKE_PEST(module)
               /\ primary.category = "disease"
            THEN IF \E r \in 1..Len(results) : results[r].category = "pest"
                 THEN <<[type |-> "look_alike", level |-> "medium"]>> ELSE <<>>
            ELSE IF /\ primary.class_name \in PEST_LOOKING_LIKE_DISEASE(module)
                    /\ primary.category = "pest"
            THEN IF \E r \in 1..Len(results) : results[r].category = "disease"
                 THEN <<[type |-> "look_alike", level |-> "medium"]>> ELSE <<>>
            ELSE <<>>
        warnings == conflict_warnings \o look_alike_warnings
        disease_confidence ==
            category_confidence(pred_probs.vals, names, "disease", Len(names))
        pest_confidence ==
            category_confidence(pred_probs.vals, names, "pest", Len(names))
    IN  [is_consistent |-> Len(warnings) = 0 /\ ~category_conflict,
         warnings |-> warnings,
         category_analysis |->
            [disease_total_confidence |-> Rat(disease_confidence, pred_probs.den),
             pest_total_confidence |-> Rat(pest_confidence, pred_probs.den),
             predicted_category |-> primary.category,
             category_confidence_ratio |->
                IF disease_confidence + pest_confidence = 0 THEN Rat(0, 1)
                ELSE Rat(Max(disease_confidence, pest_confidence),
                         disease_confidence + pest_confidence)],
         has_category_conflict |-> category_conflict]

\* ResultValidator.validate_prediction_consistency.  A warning keeps its type
\* and level; the texts are left out.  round(.., 4) and the 1e-7 added to the
\* divisor do not move a ratio of these magnitudes across 0.6.  Comparisons
\* are on the exact values: a gap that equals 0.15 or 0.3 exactly is not below
\* it, where the float difference of two float32 scores may land on either
\* side.
validate_prediction_consistency(module, results, pred_probs, names) ==
    IF Len(results) < 2 THEN [is_consistent |-> TRUE, warnings |-> <<>>]
    ELSE
    LET primary == results[1]
        secondary == results[2]
        category_conflict ==
            /\ primary.category # secondary.category
            /\ primary.category \in {"disease", "pest"}
            /\ secondary.category \in {"disease", "pest"}
        gap_n == IF primary.confidence.n >= secondary.confidence.n
                 THEN primary.confidence.n - secondary.confidence.n
                 ELSE secondary.confidence.n - primary.confidence.n
        confidence_gap == Rat(gap_n, pred_probs.den)
        conflict_warnings ==
            IF ~category_conflict THEN <<>>
            ELSE IF RatLt(confidence_gap, Rat(15, 100))
            THEN <<[type |-> "category_conflict", level |-> "high"]>>
            ELSE IF RatLt(confidence_gap, Rat(30, 100))
            THEN <<[type |-> "category_conflict", level |-> "medium"]>>
            ELSE <<>>
        look_alike_warnings ==
            IF /\ primary.class_name \in DISEASE_LOOKING_LIKE_PEST(module)
               /\ primary.category = "disease"
            THEN IF \E r \in 1..Len(results) : results[r].category = "pest"
                 THEN <<[type |-> "look_alike", level |-> "medium"]>> ELSE <<>>
            ELSE IF /\ primary.class_name \in PEST_LOOKING_LIKE_DISEASE(module)
                    /\ primary.category = "pest"
            THEN IF \E r \in 1..Len(results) : results[r].category = "disease"
                 THEN <<[type |-> "look_alike", level |-> "medium"]>> ELSE <<>>
            ELSE <<>>
        warnings == conflict_warnings \o look_alike_warnings
        disease_confidence ==
            category_confidence(pred_probs.vals, names, "disease", Len(names))
        pest_confidence ==
            category_confidence(pred_probs.vals, names, "pest", Len(names))
    IN  [is_consistent |-> Len(warnings) = 0,
         warnings |-> warnings,
         category_analysis |->
            [disease_total_confidence |-> Rat(disease_confidence, pred_probs.den),
             pest_total_confidence |-> Rat(pest_confidence, pred_probs.den),
             predicted_category |-> primary.category,
             category_confidence_ratio |->
                IF disease_confidence + pest_confidence = 0 THEN Rat(0, 1)
                ELSE Rat(Max(disease_confidence, pest_confidence),
                         disease_confidence + pest_confidence)],
         has_category_conflict |-> category_conflict]

\* TensorFlowModelService.is_ready
is_ready(service) == service.is_loaded

(* float32 arithmetic.  The model's forward pass returns float32 values and  *)
(* np.mean accumulates them in float32, in list order.  A positive float32  *)
(* is held as its IEEE-754 bit pattern, biased exponent * 2^23 + fraction,  *)
(* which orders as the value does; its value is                             *)
(* (2^23 + fraction) * 2^(exponent - 150).  The scores of the model are far *)
(* from the subnormal range and from overflow.                              *)

\* The position of the leading one bit of s, for 0 < s < 2^31.
HighBit(s) == CHOOSE k \in 0..30 : s \div (2 ^ k) = 1

f32_m(b) == IF b = 0 THEN 0 ELSE (2 ^ 23) + (b % (2 ^ 23))
f32_e(b) == b \div (2 ^ 23)

\* The float32 nearest to s * 2^(e - 150), ties to even; 0 <= s < 2^31.
f32_pack(s, e) ==
    IF s = 0 THEN 0
    ELSE LET k == HighBit(s) - 23
         IN  IF k <= 0 THEN (e + k) * (2 ^ 23) + (s * (2 ^ (0 - k)) - (2 ^ 23))
             ELSE LET q == s \div (2 ^ k)
                      r == s % (2 ^ k)
                      half == 2 ^ (k - 1)
                      up == r > half \/ (r = half /\ q % 2 = 1)
                  IN  (e + k) * (2 ^ 23) + (q + (IF up THEN 1 ELSE 0) - (2 ^ 23))

\* The smallest k from `k` on with h * 2^k >= 100 * 2^23.
RECURSIVE f32_scale(_, _)
f32_scale(h, k) ==
    IF h * (2 ^ k) >= 100 * (2 ^ 23) THEN k ELSE f32_scale(h, k + 1)

\* np.float32(h / 100): the float32 nearest to h hundredths, 0 <= h <= 100.
np_float32(h) ==
    IF h = 0 THEN 0
    ELSE LET k == f32_scale(h, 0)
             n == h * (2 ^ k)
             q == n \div 100
             r == n % 100
             up == r > 50 \/ (r = 50 /\ q % 2 = 1)
         IN  (150 - k) * (2 ^ 23) + (q + (IF up THEN 1 ELSE 0) - (2 ^ 23))

\* a + b in float32.  The smaller operand is aligned under six guard bits,
\* the bits shifted out below them are kept as a sticky bit.
f32_add(a, b) ==
    IF a = 0 THEN b
    ELSE IF b = 0 THEN a
    ELSE LET hi == Max(a, b)
             lo == Min(a, b)
             d == f32_e(hi) - f32_e(lo)
         IN  IF d <= 6 THEN f32_pack(f32_m(hi) * (2 ^ d) + f32_m(lo), f32_e(lo))
             ELSE LET shift == d - 6
                      kept == IF shift >= 25 THEN 0 ELSE f32_m(lo) \div (2 ^ shift)
                      lost == IF shift >= 25 THEN TRUE ELSE f32_m(lo) % (2 ^ shift) # 0
                      sticky == IF lost /\ kept % 2 = 0 THEN kept + 1 ELSE kept
                  IN  f32_pack(f32_m(hi) * (2 ^ 6) + sticky, f32_e(hi) - 6)

\* a / n in float32, for a count n of a few views.
f32_div(a, n) ==
    IF a = 0 THEN 0
    ELSE LET scaled == f32_m(a) * (2 ^ 6)
             q == scaled \div n
             r == scaled % n
         IN  f32_pack(2 * q + (IF r # 0 THEN 1 ELSE 0), f32_e(a) - 7)

\* A forward pass that raises.
Fails == [kind |-> "fails"]

\* self._model.predict(img_array)[0] on the array of view number `view`; view
\* 1 is the image as preprocessed, which is also what a single pass sees.
forward_pass(call, view) == call.views[view]

\* The sum at class index c over the vectors of all_predictions.
RECURSIVE sum_at(_, _)
sum_at(all_predictions, c) ==
    IF all_predictions = <<>> THEN 0
    ELSE Head(all_predictions).vals[c] + sum_at(Tail(all_predictions), c)

\* The float32 sum at class index c, accumulated in the order of the list.
RECURSIVE f32_sum_at(_, _)
f32_sum_at(all_predictions, c) ==
    IF Len(all_predictions) = 1 THEN all_predictions[1].f32[c]
    ELSE f32_add(f32_sum_at(SubSeq(all_predictions, 1, Len(all_predictions) - 1), c),
                 all_predictions[Len(all_predictions)].f32[c])

\* The float32 values of np.mean(all_predictions, axis=0).
f32_mean(all_predictions) ==
    [c \in 1..Len(all_predictions[1].vals) |->
        f32_div(f32_sum_at(all_predictions, c), Len(all_predictions))]

\* Mutant of line 627: a running average, avg = (avg + pred) / 2 per view.
RECURSIVE running_sum_at(_, _)
running_sum_at(all_predictions, c) ==
    IF Len(all_predictions) = 1 THEN all_predictions[1].vals[c]
    ELSE running_sum_at(SubSeq(all_predictions, 1, Len(all_predictions) - 1), c)
         + all_predictions[Len(all_predictions)].vals[c]
           * (2 ^ (Len(all_predictions) - 2))

np_mean_running(all_predictions) ==
    [kind |-> "ndarray",
     den |-> 100 * (2 ^ (Len(all_predictions) - 1)),
     vals |-> [c \in 1..Len(all_predictions[1].vals) |->
                  running_sum_at(all_predictions, c)],
     f32 |-> f32_mean(all_predictions)]

\* np.mean(all_predictions, axis=0), line 627.  vals / den is the mean of the
\* scores, which the result reports rounded to four decimals; f32 holds the
\* float32 values np.mean computes, which argsort compares.
np_mean(all_predictions) ==
    [kind |-> "ndarray",
     den |-> 100 * Len(all_predictions),
     vals |-> [c \in 1..Len(all_predictions[1].vals) |-> sum_at(all_predictions, c)],
     f32 |-> f32_mean(all_predictions)]

\* The views of the call whose forward pass succeeds, in order.
RECURSIVE surviving_views(_, _)
surviving_views(call, n) ==
    IF n = 0 THEN <<>>
    ELSE surviving_views(call, n - 1)
         \o (IF forward_pass(call, n) = Fails THEN <<>> ELSE <<forward_pass(call, n)>>)

\* Mutant of predict_with_tta: a failing view is skipped and the rest averaged.
predict_with_tta_skips_failed(service, call) ==
    IF ~is_ready(service) THEN NoneVal
    ELSE IF ~call.readable THEN NoneVal
    ELSE IF surviving_views(call, NumViews) = <<>> THEN NoneVal
    ELSE np_mean(surviving_views(call, NumViews))

\* predict_with_tta (old module): the mean over the five views, None when the
\* model is not loaded or anything raises.
predict_with_tta(service, call) ==
    IF ~is_ready(service) THEN NoneVal
    ELSE IF ~call.readable THEN NoneVal
    ELSE IF \E v \in 1..NumViews : forward_pass(call, v) = Fails THEN NoneVal
    ELSE np_mean([v \in 1..NumViews |-> forward_pass(call, v)])

\* The dict returned when an exception is caught in predict (old module).
failure(error) == [kind |-> "dict", success |-> FALSE, error |-> error]

\* predict (round3), lines 365-399, for one outcome of the argsort.
predict_result(service, call, pred_probs, idxs) ==
    LET results == top_3_results(pred_probs, service.class_names, idxs)
        validation == validate_prediction_consistency(service.module, results, pred_probs,
                                                      service.class_names)
        is_healthy == RatLt(results[1].confidence, Rat(call.confidence_threshold, 100))
    IN  [kind |-> "dict",
         success |-> TRUE,
         predictions |-> results,
         primary_prediction |-> results[1],
         is_healthy |-> is_healthy,
         validation |-> validation,
         model_version |-> "model_round3"]

\* TensorFlowModelService.predict (round3): the values it may return.
predict(service, call) ==
    IF ~is_ready(service) THEN {NoneVal}
    ELSE IF ~call.readable THEN {NoneVal}
    ELSE IF forward_pass(call, 1) = Fails THEN {NoneVal}
    ELSE {predict_result(service, call, forward_pass(call, 1), idxs) :
              idxs \in top_3_indices(forward_pass(call, 1).f32)}

\* Mutant of predict (old): a low category ratio lowers the adjusted
\* confidence but does not mark the result uncertain.
predict_old_result_gap_only(service, call, pred_probs, idxs) ==
    LET results == top_3_results(pred_probs, service.class_names, idxs)
        primary_result == results[1]
        is_detected == RatLt(Rat(call.confidence_threshold, 100), primary_result.confidence)
        uncertainty == Rat(pred_probs.vals[idxs[1]] - pred_probs.vals[idxs[2]], pred_probs.den)
        validation_result ==
            validate_prediction_consistency(service.module, results, pred_probs,
                                            service.class_names)
        category_conf_ratio == validation_result.category_analysis.category_confidence_ratio
        low_ratio == RatLt(category_conf_ratio, Rat(6, 10))
        is_uncertain ==
            \/ RatLt(uncertainty, Rat(20, 100))
            \/ validation_result.has_category_conflict /\ RatLt(uncertainty, Rat(25, 100))
        adjusted_confidence ==
            IF low_ratio
            THEN Rat(primary_result.confidence.n * 8, primary_result.confidence.d * 10)
            ELSE primary_result.confidence
    IN  [kind |-> "dict",
         success |-> TRUE,
         model |-> "TensorFlow_MobileNetV2",
         is_detected |-> is_detected,
         is_uncertain |-> is_uncertain,
         uncertainty_score |-> uncertainty,
         is_plant |-> TRUE,
         primary |-> [class_name |-> primary_result.class_name,
                      confidence |-> primary_result.confidence,
                      category |-> primary_result.category,
                      adjusted_confidence |-> adjusted_confidence],
         top_3 |-> results,
         all_predictions |-> pred_probs,
         preprocessing |-> [enhanced |-> call.enhance, tta_used |-> call.use_tta],
         validation |-> validation_result]

\* predict (old), lines 682-756, for one outcome of the argsort.
predict_old_result(service, call, pred_probs, idxs) ==
    LET results == top_3_results(pred_probs, service.class_names, idxs)
        primary_result == results[1]
        is_detected == RatLt(Rat(call.confidence_threshold, 100), primary_result.confidence)
        uncertainty == Rat(pred_probs.vals[idxs[1]] - pred_probs.vals[idxs[2]], pred_probs.den)
        validation_result ==
            validate_prediction_consistency(service.module, results, pred_probs,
                                            service.class_names)
        category_conf_ratio == validation_result.category_analysis.category_confidence_ratio
        low_ratio == RatLt(category_conf_ratio, Rat(6, 10))
        is_uncertain ==
            \/ RatLt(uncertainty, Rat(20, 100))
            \/ validation_result.has_category_conflict /\ RatLt(uncertainty, Rat(25, 100))
            \/ low_ratio
        adjusted_confidence ==
            IF low_ratio
            THEN Rat(primary_result.confidence.n * 8, primary_result.confidence.d * 10)
            ELSE primary_result.confidence
    IN  [kind |-> "dict",
         success |-> TRUE,
         model |-> "TensorFlow_MobileNetV2",
         is_detected |-> is_detected,
         is_uncertain |-> is_uncertain,
         uncertainty_score |-> uncertainty,
         is_plant |-> TRUE,
         primary |-> [class_name |-> primary_result.class_name,
                      confidence |-> primary_result.confidence,
                      category |-> primary_result.category,
                      adjusted_confidence |-> adjusted_confidence],
         top_3 |-> results,
         all_predictions |-> pred_probs,
         preprocessing |-> [enhanced |-> call.enhance, tta_used |-> call.use_tta],
         validation |-> validation_result]

\* predict (old), lines 670-680: one pass on the image as preprocessed.  None
\* stands for "preprocess_image returned None", Fails for a raising pass.
single_pass(call) ==
    IF ~call.readable THEN NoneVal ELSE forward_pass(call, 1)

\* predict (old), lines 665-680: the probabilities the result is built from.
predict_old_probs(service, call) ==
    IF call.use_tta
    THEN LET pred_probs == predict_with_tta(service, call)
         IN  IF IsNone(pred_probs) THEN single_pass(call) ELSE pred_probs
    ELSE single_pass(call)

\* TensorFlowModelService.predict (old): the values it may return.
predict_old(service, call) ==
    IF ~is_ready(service) THEN {NoneVal}
    ELSE LET pred_probs == predict_old_probs(service, call)
         IN  IF IsNone(pred_probs) THEN {NoneVal}
             ELSE IF pred_probs = Fails THEN {failure("forward pass raised")}
             ELSE {predict_old_result(service, call, pred_probs, idxs) :
                       idxs \in top_3_indices(pred_probs.f32)}

\* analyze_with_tensorflow (round3) takes image_path and confidence_threshold
\* only: a call with use_tta / enhance keywords raises TypeError.
analyze_with_tensorflow(service, call) ==
    IF call.keywords THEN {Raised("TypeError")}
    ELSE predict(service, call)

\* analyze_with_tensorflow (old), lines 821-842
analyze_with_tensorflow_old(service, call) ==
    IF ~is_ready(service) THEN {failure("TensorFlow model not loaded")}
    ELSE {IF IsNone(r) THEN failure("Prediction failed") ELSE r :
              r \in predict_old(service, call)}

(* Inputs of the classifier service *)

\* A probability vector with the given hundredths at the indices of Leaf
\* Miner (9), Leaf Spot Disease (10), Thrips (15) and the last class (16).
Vec(leaf_miner, leaf_spot, thrips, last) ==
    LET vals == [c \in 1..16 |-> CASE c = 9 -> leaf_miner
                                   [] c = 10 -> leaf_spot
                                   [] c = 15 -> thrips
                                   [] c = 16 -> last
                                   [] OTHER -> 0]
    IN  [kind |-> "ndarray", den |-> 100, vals |-> vals,
         f32 |-> [c \in 1..16 |-> np_float32(vals[c])]]

ProbVectors == {Vec(20, 70, 10, 0), Vec(30, 35, 20, 15), Vec(0, 20, 30, 50), Vec(40, 20, 40, 0)}

Outcomes == ProbVectors \cup {Fails}

Thresholds == {0, 40, 50}

\* The singleton after load_model: _class_names stays None (<<>>) when the
\* model file cannot be loaded.
Services ==
    {[kind |-> "TensorFlowModelService", module |-> "round3", is_loaded |-> TRUE,
      class_names |-> names] : names \in {ClassNames, JsonClassNames}}
    \cup
    {[kind |-> "TensorFlowModelService", module |-> "old", is_loaded |-> TRUE,
      class_names |-> ClassNames]}
    \cup
    {[kind |-> "TensorFlowModelService", module |-> m, is_loaded |-> FALSE,
      class_names |-> <<>>] : m \in {"round3", "old"}}

\* What the image yields.  Passes that the call never runs are given the
\* outcome of the first, so that unobserved values do not multiply states.
Views(service, use_tta, readable) ==
    IF ~service.is_loaded \/ ~readable THEN {[v \in 1..NumViews |-> Vec(20, 70, 10, 0)]}
    ELSE IF service.module = "old" /\ use_tta THEN [1..NumViews -> Outcomes]
    ELSE {[v \in 1..NumViews |-> o] : o \in Outcomes}

(* State machine of a classifier call *)

\* The request uses the classifier alone.
EngineUnused ==
    /\ cnn_result = NoneVal
    /\ kimi_result = NoneVal
    /\ image_quality = 0
    /\ result = NoneVal
    /\ response = NoneVal
    /\ pc = "unused"
    /\ ensemble = NoneVal
    /\ memo = NoneVal
    /\ float_ties = NoneVal
    /\ float_max = {}

\* One call on the singleton.  The caller passes use_tta / enhance as
\* keywords, as the routes and the test do, or leaves the defaults.
InitService ==
    /\ EngineUnused
    /\ tf_service \in Services
    /\ \E kw \in BOOLEAN, tta \in BOOLEAN, enh \in BOOLEAN, th \in Thresholds,
          rd \in BOOLEAN :
           /\ ~kw => tta /\ enh
           /\ ~tf_service.is_loaded => rd
           /\ \E vs \in Views(tf_service, tta, rd) :
                  tf_call = [kind |-> "call", keywords |-> kw, use_tta |-> tta,
                             enhance |-> enh, confidence_threshold |-> th,
                             readable |-> rd, views |-> vs]
    /\ tf_result = NoneVal
    /\ tf_pc = "idle"

\* A direct call service.predict_with_tta(image_path, enhance=...) (old module).
PredictWithTta ==
    /\ tf_pc = "idle"
    /\ tf_service.module = "old"
    /\ tf_result' = predict_with_tta(tf_service, tf_call)
    /\ tf_pc' = "tta_returned"
    /\ UNCHANGED <<tf_service, tf_call>>
    /\ UNCHANGED engine_vars

\* A direct call service.predict(image_path, ...).
Predict ==
    /\ tf_pc = "idle"
    /\ tf_result' \in IF tf_service.module = "old" THEN predict_old(tf_service, tf_call)
                      ELSE IF tf_call.keywords THEN {Raised("TypeError")}
                      ELSE predict(tf_service, tf_call)
    /\ tf_pc' = "predicted"
    /\ UNCHANGED <<tf_service, tf_call>>
    /\ UNCHANGED engine_vars

\* A call analyze_with_tensorflow(image_path, ...) of the imported module.
AnalyzeWithTensorflow ==
    /\ tf_pc = "idle"
    /\ tf_result' \in IF tf_service.module = "old"
                      THEN analyze_with_tensorflow_old(tf_service, tf_call)
                      ELSE analyze_with_tensorflow(tf_service, tf_call)
    /\ tf_pc' = "analyzed"
    /\ UNCHANGED <<tf_service, tf_call>>
    /\ UNCHANGED engine_vars

\* A direct call ResultValidator.validate_prediction_consistency(results,
\* pred_probs, class_names) with the first n of the top-3 records of a
\* probability vector.  The state keeps the arguments beside the report.
Validate ==
    /\ tf_pc = "idle"
    /\ tf_service.is_loaded
    /\ forward_pass(tf_call, 1) # Fails
    /\ \E n \in 0..3, idxs \in top_3_indices(forward_pass(tf_call, 1).f32) :
           LET pred_probs == forward_pass(tf_call, 1)
               results == SubSeq(top_3_results(pred_probs, tf_service.class_names, idxs), 1, n)
           IN  tf_result' =
                   [kind |-> "report",
                    results |-> results,
                    report |-> validate_prediction_consistency(
                                   tf_service.module, results, pred_probs,
                                   tf_service.class_names)]
    /\ tf_pc' = "validated"
    /\ UNCHANGED <<tf_service, tf_call>>
    /\ UNCHANGED engine_vars

NextService == PredictWithTta \/ Predict \/ AnalyzeWithTensorflow \/ Validate

SpecService == InitService /\ [][NextService]_vars

\* A request of either kind: an engine call or a classifier call.
InitAll == Init \/ InitService

NextAll == Next \/ NextService

SpecAll == InitAll /\ [][NextAll]_vars

----------------------------------------------------------------------------
(* Properties *)

\* A call has returned or raised.
Returned == pc \in {"decided", "responded"}
\* A call has returned a decision.
Decision == Returned /\ result.kind = "EnsembleResult"

BothPresent == ~IsNone(cnn_pred) /\ ~IsNone(kimi_pred)
OnlyCnn == ~IsNone(cnn_pred) /\ IsNone(kimi_pred)
OnlyKimi == IsNone(cnn_pred) /\ ~IsNone(kimi_pred)

\* The input ranges the weighting formulas assume.
ValidInputs ==
    /\ image_quality \in 0..2
    /\ ~IsNone(cnn_pred) =>
          /\ cnn_pred.confidence \in 0..100
          /\ Len(cnn_pred.top_k) >= 1
          /\ \A i \in 1..Len(cnn_pred.top_k) : cnn_pred.top_k[i][2] \in 0..100
          /\ \A i \in 1..(Len(cnn_pred.top_k) - 1) :
                 cnn_pred.top_k[i][2] >= cnn_pred.top_k[i + 1][2]
    /\ ~IsNone(kimi_pred) => kimi_pred.reasoning_quality \in 0..10

\* The language model reports no finding: it is uncertain, or its label is,
\* up to letter case, one of the healthy aliases.
KimiSaysHealthy ==
    \/ kimi_pred.is_uncertain
    \/ kimi_pred.predicted_class \in {"Healthy", "NONE", "No disease or pest found", HealthyTH}

InUnit(x) == 0 <= x.n /\ x.n <= x.d
RatEq(x, y) == x.n * y.d = y.n * x.d
RatGeq(x, y) == x.n * y.d >= y.n * x.d
SumIsOne(x, y) ==
    IF x.d = y.d THEN x.n + y.n = x.d
    ELSE x.n * y.d + y.n * x.d = x.d * y.d

HealthyBranches == {"healthy_cnn_over_95", "healthy_kimi_trusted"}

\* C1: on valid inputs every decision's cnn_weight and kimi_weight lie in
\* [0,1], and when both predictions are present (source = ensemble) the two
\* weights sum to 1, in the healthy-override, agreement and disagreement
\* branches alike.
C1_WeightsBounded ==
    (Decision /\ ValidInputs) =>
        /\ InUnit(result.cnn_weight)
        /\ InUnit(result.kimi_weight)
        /\ result.source = "ensemble" => SumIsOne(result.cnn_weight, result.kimi_weight)

C1_Witness ==
    /\ Decision /\ ValidInputs /\ BothPresent
    /\ result.reasoning = "disagree"
    /\ result.cnn_weight.n > 0
    /\ Len(cnn_pred.top_k) = 2

C3_Original ==
    (Decision /\ ValidInputs /\ BothPresent
       /\ cnn_pred.predicted_class = kimi_pred.predicted_class) =>
        /\ result.final_diagnosis = cnn_pred.predicted_class
        /\ RatGeq(result.confidence, Rat(Max(cnn_pred.confidence, 75), 100))

\* C3 amended: whenever both predictions are present, the labels are equal
\* and the language model is neither uncertain nor reporting a healthy
\* alias, the decision's label is the classifier's label and its confidence
\* is at least min(0.95, max(classifier.confidence, 0.75)).
C3_Agreement ==
    (Decision /\ BothPresent /\ ~KimiSaysHealthy
       /\ cnn_pred.predicted_class = kimi_pred.predicted_class) =>
        /\ result.final_diagnosis = cnn_pred.predicted_class
        /\ RatGeq(result.confidence, Rat(Min(95, Max(cnn_pred.confidence, 75)), 100))

C3_Witness ==
    /\ Decision /\ BothPresent /\ ~KimiSaysHealthy
    /\ cnn_pred.predicted_class = kimi_pred.predicted_class
    /\ cnn_pred.confidence = 97
    /\ RatEq(result.confidence, Rat(95, 100))

\* C4: both predictions present, the language model healthy/uncertain and
\* the classifier's confidence strictly above 0.95: the decision keeps the
\* classifier's label, its confidence is exactly half the classifier's, its
\* weights are exactly (0.7, 0.3) and its source is ensemble.
C4_HealthyHighConfidence ==
    (Returned /\ BothPresent /\ KimiSaysHealthy /\ cnn_pred.confidence > 95) =>
        /\ result.kind = "EnsembleResult"
        /\ result.final_diagnosis = cnn_pred.predicted_class
        /\ RatEq(result.confidence, Rat(cnn_pred.confidence, 200))
        /\ RatEq(result.cnn_weight, Rat(7, 10))
        /\ RatEq(result.kimi_weight, Rat(3, 10))
        /\ result.source = "ensemble"

C4_Witness ==
    /\ Returned /\ BothPresent /\ kimi_pred.is_uncertain
    /\ cnn_pred.confidence = 97
    /\ result.kind = "EnsembleResult"
    /\ RatEq(result.confidence, Rat(485, 1000))

\* C5: both predictions present, the language model healthy/uncertain and
\* the classifier's confidence at most 0.95 (0.95 included): the decision's
\* label is the healthy sentinel, its confidence exactly 0.85, its weights
\* exactly (0.1, 0.9), whatever the classifier's label, top-k and the image
\* quality.
C5_HealthyModerateConfidence ==
    (Returned /\ BothPresent /\ KimiSaysHealthy /\ cnn_pred.confidence <= 95) =>
        /\ result.kind = "EnsembleResult"
        /\ result.final_diagnosis = HealthySentinel
        /\ RatEq(result.confidence, Rat(85, 100))
        /\ RatEq(result.cnn_weight, Rat(1, 10))
        /\ RatEq(result.kimi_weight, Rat(9, 10))

C5_Witness ==
    /\ Returned /\ BothPresent /\ KimiSaysHealthy
    /\ cnn_pred.confidence = 95
    /\ result.kind = "EnsembleResult"
    /\ result.final_diagnosis = HealthySentinel

\* C6: with both predictions present the healthy-override rule is applied
\* if and only if the language model is uncertain or its label is, compared
\* case-insensitively, a healthy alias; when it applies neither the
\* agreement nor the disagreement branch is taken, even if the labels are
\* equal.
C6_HealthyOverrideIff ==
    (Decision /\ BothPresent) =>
        /\ (result.reasoning \in HealthyBranches) <=> KimiSaysHealthy
        /\ KimiSaysHealthy => result.reasoning \notin {"agree", "disagree"}

C6_Witness ==
    /\ Decision /\ BothPresent
    /\ cnn_pred.predicted_class = kimi_pred.predicted_class
    /\ kimi_pred.is_uncertain
    /\ result.reasoning \in HealthyBranches

\* C7: in the classifier-only branch the label is the classifier's, the
\* source is classifier, the weights are (1, 0), and the confidence is the
\* classifier's unchanged when it is >= 0.60 and 0.7 times it when it is
\* strictly below 0.60.
C7_ClassifierOnly ==
    (Returned /\ OnlyCnn) =>
        /\ result.kind = "EnsembleResult"
        /\ result.final_diagnosis = cnn_pred.predicted_class
        /\ result.source = "cnn"
        /\ RatEq(result.cnn_weight, Rat(1, 1))
        /\ RatEq(result.kimi_weight, Rat(0, 1))
        /\ cnn_pred.confidence >= 60 =>
               RatEq(result.confidence, Rat(cnn_pred.confidence, 100))
        /\ cnn_pred.confidence < 60 =>
               RatEq(result.confidence, Rat(7 * cnn_pred.confidence, 1000))

C7_Witness ==
    /\ Returned /\ OnlyCnn
    /\ cnn_pred.confidence = 30
    /\ result.kind = "EnsembleResult"
    /\ RatEq(result.confidence, Rat(21, 100))

\* C8: in the language-model-only branch an uncertain language model gives
\* the no-finding sentinel with confidence exactly 0.5, otherwise the
\* language model's label unchanged with confidence exactly 0.75; the
\* source is languageModel and the weights are (0, 1) in both cases.
C8_LanguageModelOnly ==
    (Returned /\ OnlyKimi) =>
        /\ result.kind = "EnsembleResult"
        /\ result.source = "kimi"
        /\ RatEq(result.cnn_weight, Rat(0, 1))
        /\ RatEq(result.kimi_weight, Rat(1, 1))
        /\ kimi_pred.is_uncertain =>
               /\ result.final_diagnosis = KimiOnlySentinel
               /\ RatEq(result.confidence, Rat(1, 2))
        /\ ~kimi_pred.is_uncertain =>
               /\ result.final_diagnosis = kimi_pred.predicted_class
               /\ RatEq(result.confidence, Rat(3, 4))

C8_Witness ==
    /\ Returned /\ OnlyKimi
    /\ kimi_pred.is_uncertain
    /\ kimi_pred.predicted_class = "Thrips"
    /\ result.kind = "EnsembleResult"
    /\ result.final_diagnosis = KimiOnlySentinel

\* C9: with neither prediction supplied the call is rejected with the
\* distinct "no input provided" error kind; it returns no decision and does
\* not fail with an unrelated internal error.
C9_NoInputRejected ==
    (Returned /\ IsNone(cnn_pred) /\ IsNone(kimi_pred)) =>
        /\ result.kind = "error"
        /\ result.error = "NoInputProvided"
        /\ pc = "responded" => response = result

\* C10: with exactly one prediction supplied decide_ensemble returns a
\* decision, and every decision's source is classifier iff only the
\* classifier prediction is present, languageModel iff only the
\* language-model prediction is present, ensemble iff both are present.
C10_SourceByAvailability ==
    Returned =>
        /\ (OnlyCnn \/ OnlyKimi) => result.kind = "EnsembleResult"
        /\ result.kind = "EnsembleResult" =>
               /\ result.source = "cnn" <=> OnlyCnn
               /\ result.source = "kimi" <=> OnlyKimi
               /\ result.source = "ensemble" <=> BothPresent

C10_Witness ==
    /\ Decision /\ OnlyKimi
    /\ ~kimi_pred.is_uncertain
    /\ result.source = "kimi"

\* The classifier prediction breaks the input contract: its confidence lies
\* outside [0,1] or its top_k list is empty.
InvalidCnnInput ==
    /\ ~IsNone(cnn_pred)
    /\ \/ cnn_pred.confidence \notin 0..100
       \/ Len(cnn_pred.top_k) = 0

\* C11: a classifier prediction whose confidence lies outside [0,1] or whose
\* top_k list is empty is rejected with a validation error before any weight
\* is computed: the call ends in that error, never in a decision.
C11_InvalidInputRejected ==
    (Returned /\ InvalidCnnInput) =>
        /\ result.kind = "error"
        /\ result.error = "ValidationError"

\* A weight function has returned or raised.
CnnWeighed == pc = "cnn_weighed"
KimiWeighed == pc = "kimi_weighed"

\* The difficulty of a label: its value in the constructed table, in tenths,
\* or 0.5.
Difficulty(cls) ==
    IF cls \in DOMAIN class_complexity THEN class_complexity[cls] ELSE 5

\* The top-1 minus top-2 score, 1.0 when top_k has fewer than two entries.
Gap(top_k) == IF Len(top_k) < 2 THEN 100 ELSE top_k[1][2] - top_k[2][2]

\* C19: calculate_cnn_weight returns
\*   min((confidence*0.7 + min(gap*0.2, 0.1)) * (0.7 + 0.3*imageQuality)
\*       * (1 - difficulty*0.2), 1.0)
\* and on valid inputs the value lies in [0,1].  In millionths:
\* (7c + min(2 gap, 100)) thousandths, (14 + 3q) twentieths,
\* (50 - difficulty) fiftieths.
C19_CnnWeightFormula ==
    (CnnWeighed /\ ~IsNone(cnn_pred)) =>
        /\ result.kind = "float"
        /\ result.d = 1000000
        /\ result.n = Min((7 * cnn_pred.confidence + Min(2 * Gap(cnn_pred.top_k), 100))
                          * (14 + 3 * image_quality)
                          * (50 - Difficulty(cnn_pred.predicted_class)),
                          1000000)
        /\ ValidInputs => InUnit(result)

C19_Witness ==
    /\ CnnWeighed /\ ~IsNone(cnn_pred) /\ ValidInputs
    /\ Len(cnn_pred.top_k) = 1
    /\ cnn_pred.predicted_class = "Thrips"
    /\ cnn_pred.confidence = 100
    /\ image_quality = 2
    /\ result.n = 688000

\* The disagreement penalty of calculate_kimi_weight applies: a classifier
\* prediction is present, its confidence is strictly above 0.9 and its label
\* differs from the language model's.
PenaltyApplies ==
    /\ ~IsNone(cnn_pred)
    /\ cnn_pred.confidence > 90
    /\ cnn_pred.predicted_class # kimi_pred.predicted_class

\* C20: calculate_kimi_weight returns exactly 0.2 whenever the language
\* model is uncertain; otherwise it returns
\*   clamp((0.75 + 0.15*reasoningQuality) * (0.8 + 0.2*difficulty) - penalty,
\*         0.2, 1.0)
\* with penalty 0.15 iff PenaltyApplies, else 0; the value is always in
\* [0.2, 1.0].  In millionths: (750 + 15 rq) thousandths, (40 + difficulty)
\* fiftieths, penalty 150000.
C20_KimiWeightFormula ==
    (KimiWeighed /\ ~IsNone(kimi_pred)) =>
        /\ result.kind = "float"
        /\ result.d = 1000000
        /\ kimi_pred.is_uncertain => result.n = 200000
        /\ ~kimi_pred.is_uncertain =>
              result.n = Max(200000,
                             Min((750 + 15 * kimi_pred.reasoning_quality)
                                 * (40 + Difficulty(kimi_pred.predicted_class)) * 20
                                 - (IF PenaltyApplies THEN 150000 ELSE 0),
                                 1000000))
        /\ 200000 <= result.n /\ result.n <= 1000000

C20_Witness ==
    /\ KimiWeighed /\ ~IsNone(kimi_pred) /\ ~kimi_pred.is_uncertain
    /\ ~IsNone(cnn_pred) /\ cnn_pred.confidence = 90
    /\ cnn_pred.predicted_class = "Thrips"
    /\ kimi_pred.predicted_class = "Powdery Mildew"
    /\ kimi_pred.reasoning_quality = 10
    /\ result.n = 774000

SameRequestAsRemembered ==
    /\ ~IsNone(memo)
    /\ memo.pc = pc
    /\ memo.cnn_result = cnn_result
    /\ memo.kimi_result = kimi_result
    /\ memo.image_quality = image_quality

\* C13: two calls of decide_ensemble (or of diagnose) with equal inputs on
\* the same instance return equal decisions, whatever requests were made in
\* between.
C13_EqualInputsEqualDecisions ==
    (Returned /\ SameRequestAsRemembered) =>
        /\ result = memo.result
        /\ response = memo.response

C13_Witness ==
    /\ Returned /\ SameRequestAsRemembered
    /\ memo.between = 2
    /\ result.kind = "EnsembleResult"
    /\ result.reasoning = "disagree"
    /\ pc = "responded"

----------------------------------------------------------------------------
(* Properties of the classifier service *)

\* A call of predict_with_tta, predict, analyze_with_tensorflow has returned
\* or raised.
TtaReturned == tf_pc = "tta_returned"
Predicted == tf_pc = "predicted"
Analyzed == tf_pc = "analyzed"

\* The call returned a record with success = true.
Succeeded == tf_result.kind = "dict" /\ tf_result.success

\* The model is loaded, the image can be preprocessed, and every view's
\* forward pass returns a vector / some view's forward pass raises.
Inferable == tf_service.is_loaded /\ tf_call.readable
AllViewsPass == Inferable /\ \A v \in 1..NumViews : tf_call.views[v] # Fails
SomeViewFails == Inferable /\ \E v \in 1..NumViews : tf_call.views[v] = Fails

\* The primary record and the top-3 list of a successful result, under the
\* names either module gives them.
Primary ==
    IF "primary" \in DOMAIN tf_result THEN tf_result.primary
    ELSE tf_result.primary_prediction
TopThree ==
    IF "top_3" \in DOMAIN tf_result THEN tf_result.top_3 ELSE tf_result.predictions

\* The labels of a healthy / no-finding verdict.
HealthyLabels ==
    {"healthy", "Healthy", "none", "None", "NONE", KimiOnlySentinel, HealthySentinel, HealthyTH}

\* C12: for any label, including labels absent from the class tables, both
\* weight functions and the classifier's category lookup succeed: an unknown
\* label is given difficulty 0.5 in the weight formulas (factor 1 - 0.1 for
\* the classifier, 0.8 + 0.1 for the language model) and category "unknown"
\* in the top-3 record, and the call does not fail.
C12_UnknownLabelDefaults ==
    /\ (CnnWeighed /\ ~IsNone(cnn_pred)
          /\ cnn_pred.predicted_class \notin DOMAIN class_complexity) =>
          /\ result.kind = "float"
          /\ result.n = Min((7 * cnn_pred.confidence + Min(2 * Gap(cnn_pred.top_k), 100))
                            * (14 + 3 * image_quality) * 45, 1000000)
    /\ (KimiWeighed /\ ~IsNone(kimi_pred) /\ ~kimi_pred.is_uncertain
          /\ kimi_pred.predicted_class \notin DOMAIN class_complexity) =>
          /\ result.kind = "float"
          /\ result.n = Max(200000,
                            Min((750 + 15 * kimi_pred.reasoning_quality) * 45 * 20
                                - (IF PenaltyApplies THEN 150000 ELSE 0), 1000000))
    /\ (Predicted /\ tf_service.module = "round3" /\ Inferable /\ ~tf_call.keywords
          /\ tf_call.views[1] # Fails) =>
          /\ Succeeded
          /\ \A r \in 1..3 :
                tf_result.predictions[r].category =
                    IF tf_result.predictions[r].class_name \in DiseaseClasses THEN "disease"
                    ELSE IF tf_result.predictions[r].class_name \in PestClasses THEN "pest"
                    ELSE "unknown"

C12_Witness ==
    /\ Predicted /\ Succeeded
    /\ tf_service.class_names = JsonClassNames
    /\ tf_result.primary_prediction.class_name = "Leaf Curl"
    /\ tf_result.primary_prediction.category = "unknown"

\* C15: when the top-1 score is strictly below the detection threshold, the
\* primary label of predict's result is the healthy / no-finding verdict
\* rather than the top-1 class, its confidence is 1 minus the top-1 score, and
\* the top-3 survives as metadata; at or above the threshold the top-1 class
\* stands.
C15_ThresholdOverride ==
    (Predicted /\ Succeeded) =>
        IF RatLt(TopThree[1].confidence, Rat(tf_call.confidence_threshold, 100))
        THEN /\ Primary.class_name \in HealthyLabels
             /\ RatEq(Primary.confidence,
                      Rat(TopThree[1].confidence.d - TopThree[1].confidence.n,
                          TopThree[1].confidence.d))
        ELSE Primary.class_name = TopThree[1].class_name

C18_AlwaysSuccessFlag ==
    Analyzed =>
        /\ tf_result.kind = "dict"
        /\ tf_result.success =>
              "primary" \in DOMAIN tf_result /\ "top_3" \in DOMAIN tf_result
        /\ (~tf_service.is_loaded \/ ~tf_call.readable \/ tf_call.views[1] = Fails) =>
              ~tf_result.success /\ "error" \in DOMAIN tf_result

----------------------------------------------------------------------------
(* Properties of the merge branches *)

\* Both predictions are present, the language model reports a finding, and
\* the two labels are equal / differ.
AgreementCase ==
    /\ Decision /\ BothPresent /\ ~KimiSaysHealthy
    /\ cnn_pred.predicted_class = kimi_pred.predicted_class
DisagreementCase ==
    /\ Decision /\ BothPresent /\ ~KimiSaysHealthy
    /\ cnn_pred.predicted_class # kimi_pred.predicted_class

\* The values of the two weight functions on the request's inputs, in
\* millionths, by the formulas of C19 and C20.
RawCnnWeight ==
    Min((7 * cnn_pred.confidence + Min(2 * Gap(cnn_pred.top_k), 100))
        * (14 + 3 * image_quality) * (50 - Difficulty(cnn_pred.predicted_class)),
        1000000)
RawKimiWeight ==
    IF kimi_pred.is_uncertain THEN 200000
    ELSE Max(200000,
             Min((750 + 15 * kimi_pred.reasoning_quality)
                 * (40 + Difficulty(kimi_pred.predicted_class)) * 20
                 - (IF PenaltyApplies THEN 150000 ELSE 0),
                 1000000))

\* C21: in the agreement branch (both present, labels equal, not a healthy
\* case) the decision's confidence is min(0.95, max(confidence, 0.75) + 0.15),
\* hence in [0.90, 0.95]; its label is the agreed label and its weights are
\* the two weight functions' values divided by their sum.
C21_AgreementBranch ==
    AgreementCase =>
        /\ RatEq(result.confidence,
                 Rat(Min(95, Max(cnn_pred.confidence, 75) + 15), 100))
        /\ RatGeq(result.confidence, Rat(90, 100))
        /\ RatGeq(Rat(95, 100), result.confidence)
        /\ result.final_diagnosis = kimi_pred.predicted_class
        /\ result.source = "ensemble"
        /\ result.cnn_weight = Rat(RawCnnWeight, RawCnnWeight + RawKimiWeight)
        /\ result.kimi_weight = Rat(RawKimiWeight, RawCnnWeight + RawKimiWeight)

C21_Witness ==
    /\ AgreementCase /\ ValidInputs
    /\ cnn_pred.confidence = 60
    /\ RatEq(result.confidence, Rat(90, 100))
    /\ result.cnn_weight.n > 0
    /\ result.kimi_weight.n = 200000 + 574000

\* The labels of the score map: the classifier's top-k labels and the
\* language model's label.
Candidates ==
    {cnn_pred.top_k[i][1] : i \in 1..Len(cnn_pred.top_k)} \cup {kimi_pred.predicted_class}

\* The sum of the top-k scores listed under the label, in hundredths.
RECURSIVE TopKTotal(_, _)
TopKTotal(top_k, cls) ==
    IF top_k = <<>> THEN 0
    ELSE (IF top_k[1][1] = cls THEN top_k[1][2] ELSE 0) + TopKTotal(Tail(top_k), cls)

\* The accumulated score of a label, as a numerator over
\* 100 * (RawCnnWeight + RawKimiWeight).
Score(cls) ==
    TopKTotal(cnn_pred.top_k, cls) * RawCnnWeight
    + (IF cls = kimi_pred.predicted_class THEN 80 * RawKimiWeight ELSE 0)

\* C22: in the disagreement branch each top-k label scores the sum of its
\* scores times the normalized classifier weight, the language model's label
\* gets 0.8 times the normalized language-model weight on top; the decision's
\* label is a label of the map whose score is at least every other
\* candidate's, and the decision's confidence is that score.
C22_DisagreementArgmax ==
    DisagreementCase =>
        /\ result.final_diagnosis \in Candidates
        /\ \A cls \in Candidates : Score(cls) <= Score(result.final_diagnosis)
        /\ result.confidence = Rat(Score(result.final_diagnosis),
                                   100 * (RawCnnWeight + RawKimiWeight))
        /\ result.cnn_weight = Rat(RawCnnWeight, RawCnnWeight + RawKimiWeight)
        /\ result.kimi_weight = Rat(RawKimiWeight, RawCnnWeight + RawKimiWeight)

C22_Witness ==
    /\ DisagreementCase /\ ValidInputs
    /\ Len(cnn_pred.top_k) = 2
    /\ cnn_pred.top_k[1][1] # cnn_pred.top_k[2][1]
    /\ cnn_pred.top_k[2][1] = kimi_pred.predicted_class
    /\ cnn_pred.top_k[2][2] > 0
    /\ result.final_diagnosis = kimi_pred.predicted_class
    /\ Score(cnn_pred.top_k[1][1]) > 0

\* The place of a label in the score map's insertion order: the rank of its
\* first top-k entry, or one past the top-k list for a label that only the
\* language model names.
InsertionRank(cls) ==
    IF \E i \in 1..Len(cnn_pred.top_k) : cnn_pred.top_k[i][1] = cls
    THEN CHOOSE i \in 1..Len(cnn_pred.top_k) :
             /\ cnn_pred.top_k[i][1] = cls
             /\ \A j \in 1..(i - 1) : cnn_pred.top_k[j][1] # cls
    ELSE Len(cnn_pred.top_k) + 1

\* The classifier's top-k labels.
TopKLabels == {cnn_pred.top_k[i][1] : i \in 1..Len(cnn_pred.top_k)}

\* C23: in the disagreement branch, when two or more labels tie on the
\* largest computed score the winner is the tied label inserted first into
\* the score map (top-k labels in rank order, then the language model's label
\* if it is new); so a classifier top-k label wins a tie against a label that
\* only the language model names.
C23_TieFirstInserted ==
    (DisagreementCase /\ Cardinality(float_max) >= 2) =>
        /\ result.final_diagnosis \in float_max
        /\ \A cls \in float_max :
               InsertionRank(result.final_diagnosis) <= InsertionRank(cls)
        /\ (/\ kimi_pred.predicted_class \in float_max \ TopKLabels
            /\ float_max \cap TopKLabels # {}) =>
               result.final_diagnosis \in TopKLabels

C23_Witness ==
    /\ DisagreementCase /\ ValidInputs
    /\ cnn_pred.confidence = 90
    /\ cnn_pred.top_k = << <<"Thrips", 100>>, <<"Powdery Mildew", 55>> >>
    /\ kimi_pred.predicted_class = HealthySentinel
    /\ float_max = {"Thrips", HealthySentinel}
    /\ result.final_diagnosis = "Thrips"
    /\ RatEq(result.confidence, Rat(4, 9))

\* Labels of every difficulty in the table, and one the table does not hold.
DifficultyLabels == DOMAIN class_complexity \cup {"Leaf Curl"}

\* The label enters the disagreement penalty only by being the classifier's
\* label or not: cls leaves the penalty of the request as it is.
SamePenalty(cls) ==
    IF IsNone(cnn_pred) THEN TRUE
    ELSE (cls = cnn_pred.predicted_class)
             = (kimi_pred.predicted_class = cnn_pred.predicted_class)

Validation == tf_result.validation

\* The result comes from predict or analyze_with_tensorflow and carries a
\* validation report.
Validated == (Predicted \/ Analyzed) /\ Succeeded

\* |top1.score - top2.score| of the result, in units of 1 / den.
TopGap ==
    LET a == TopThree[1].confidence.n
        b == TopThree[2].confidence.n
    IN  Rat(IF a >= b THEN a - b ELSE b - a, TopThree[1].confidence.d)

\* The top-1 and top-2 categories differ and both are disease or pest.
TopTwoConflict ==
    /\ TopThree[1].category # TopThree[2].category
    /\ TopThree[1].category \in {"disease", "pest"}
    /\ TopThree[2].category \in {"disease", "pest"}

\* The category_conflict warnings of the report.
ConflictWarnings ==
    {w \in 1..Len(Validation.warnings) : Validation.warnings[w].type = "category_conflict"}

ConflictLevels == {Validation.warnings[w].level : w \in ConflictWarnings}

\* C25: the validator reports a category conflict exactly when the top-1 and
\* top-2 categories differ and both are disease or pest; with a conflict it
\* emits one category_conflict warning, of level high when the gap between
\* the two scores is below 0.15 and of level medium when the gap is at least
\* 0.15 and below 0.30; it emits none when the gap is 0.30 or more or when
\* there is no conflict.
C25_CategoryConflictLevels ==
    Validated =>
        /\ Validation.has_category_conflict <=> TopTwoConflict
        /\ (TopTwoConflict /\ RatLt(TopGap, Rat(15, 100))) =>
              Cardinality(ConflictWarnings) = 1 /\ ConflictLevels = {"high"}
        /\ (TopTwoConflict /\ ~RatLt(TopGap, Rat(15, 100)) /\ RatLt(TopGap, Rat(30, 100))) =>
              Cardinality(ConflictWarnings) = 1 /\ ConflictLevels = {"medium"}
        /\ (~TopTwoConflict \/ ~RatLt(TopGap, Rat(30, 100))) => ConflictWarnings = {}

\* A conflict between a disease and a pest with a gap of 0.2, rated medium.
C25_Witness ==
    /\ Validated
    /\ TopTwoConflict
    /\ TopGap = Rat(20, 100)
    /\ ConflictLevels = {"medium"}

\* The result is a successful one of the old module's predict, which alone
\* carries is_uncertain.
OldResult == Validated /\ tf_service.module = "old"

\* top-1 minus top-2 score, as predict computes it.
Uncertainty ==
    Rat(TopThree[1].confidence.n - TopThree[2].confidence.n, TopThree[1].confidence.d)

\* The two signals of uncertainty: a gap below 0.2, or a category conflict
\* with a gap below 0.25.
GapSignals ==
    \/ RatLt(Uncertainty, Rat(20, 100))
    \/ Validation.has_category_conflict /\ RatLt(Uncertainty, Rat(25, 100))

\* The third signal: the larger of the disease and pest totals is below 0.6
\* of their sum.
LowCategoryRatio ==
    RatLt(Validation.category_analysis.category_confidence_ratio, Rat(6, 10))

\* C26 as stated: is_uncertain is true exactly when the top-1 / top-2 gap is
\* below 0.2 or a category conflict exists and the gap is below 0.25, and
\* nothing else sets it.
C26_UncertainOnlyByGap ==
    OldResult => (tf_result.is_uncertain <=> GapSignals)

\* C26 amended: is_uncertain is true exactly when the gap is below 0.2, or a
\* category conflict exists and the gap is below 0.25, or the category
\* confidence ratio is below 0.6.
C26_UncertainByGapOrRatio ==
    OldResult => (tf_result.is_uncertain <=> (GapSignals \/ LowCategoryRatio))

\* A result whose gap raises neither gap signal while diseases and pests
\* share the distribution almost evenly: uncertain by the ratio alone.
C26_Witness ==
    /\ OldResult
    /\ ~GapSignals
    /\ LowCategoryRatio
    /\ tf_result.is_uncertain

(* Properties of the augmented pass *)

\* The call with its per-view results collected in the order p.
Permuted(p) ==
    [tf_call EXCEPT !.views = [v \in 1..NumViews |-> tf_call.views[p[v]]]]

\* The top-3 lists among the given results of predict.
TopThreeOf(results) == {r.top_3 : r \in {x \in results : x.kind = "dict" /\ x.success}}

\* C27: the fused probability vector of the augmented pass and the top-3 list
\* derived from it are the same for every order of the per-view results: any
\* permutation of the views' vectors yields the identical fused vector and
\* the identical top-3.
C27_FusionOrderIndependent ==
    (tf_pc # "idle" /\ tf_service.module = "old" /\ tf_call.use_tta /\ AllViewsPass) =>
        \A p \in Permutations(1..NumViews) :
            /\ predict_with_tta(tf_service, Permuted(p)) = predict_with_tta(tf_service, tf_call)
            /\ TopThreeOf(predict_old(tf_service, Permuted(p)))
                  = TopThreeOf(predict_old(tf_service, tf_call))

\* C28: a result of the old module's predict reports preprocessing.tta_used
\* = true only if its probabilities are the mean over the augmented views;
\* after predict_with_tta has failed and predict has fallen back to a single
\* pass, the result does not report tta_used = true.
C28_TtaUsedOnlyWhenFused ==
    (OldResult /\ tf_result.preprocessing.tta_used) =>
        tf_result.all_predictions = predict_with_tta(tf_service, tf_call)

\* The validator has been called directly / a report is at hand, from a
\* direct call or inside a classifier result.
ValidatorReturned == tf_pc = "validated"
HasReport == ValidatorReturned \/ Validated

\* The report, and the results it was computed from.
Report == IF ValidatorReturned THEN tf_result.report ELSE Validation
Results == IF ValidatorReturned THEN tf_result.results ELSE TopThree

LookAlikeWarnings ==
    {w \in 1..Len(Report.warnings) : Report.warnings[w].type = "look_alike"}

\* The top two of the results conflict in category, at a gap of 0.30 or more.
WideConflict ==
    /\ Len(Results) >= 2
    /\ Results[1].category # Results[2].category
    /\ Results[1].category \in {"disease", "pest"}
    /\ Results[2].category \in {"disease", "pest"}
    /\ LET a == Results[1].confidence.n
           b == Results[2].confidence.n
       IN  ~RatLt(Rat(IF a >= b THEN a - b ELSE b - a, Results[1].confidence.d),
                  Rat(30, 100))

\* C29: with at least two results is_consistent is true exactly when the
\* warnings list is empty; so a category conflict with a gap of 0.30 or more
\* that raises no look-alike warning is reported with has_category_conflict
\* true and is_consistent true; with fewer than two results the report is
\* is_consistent true with no warnings.
C29_ConsistentIffNoWarnings ==
    HasReport =>
        /\ Len(Results) >= 2 => (Report.is_consistent <=> Report.warnings = <<>>)
        /\ (WideConflict /\ LookAlikeWarnings = {}) =>
              Report.has_category_conflict /\ Report.is_consistent
        /\ Len(Results) < 2 => (Report.is_consistent /\ Report.warnings = <<>>)

\* A disease ahead of a pest by 0.5 with no look-alike warning: a conflict,
\* and a consistent report.
C29_Witness ==
    /\ HasReport
    /\ WideConflict
    /\ LookAlikeWarnings = {}
    /\ Report.has_category_conflict
    /\ Report.is_consistent

(* Properties of the no-finding labels *)

\* The branches that put a no-finding label of the engine's own into the
\* decision: language model alone and uncertain, and the healthy override
\* that trusts the language model.
NoFindingBranches == {"kimi_uncertain", "healthy_kimi_trusted"}
EmitsNoFinding == Decision /\ result.reasoning \in NoFindingBranches

\* The labels those branches emit.
EmittedLabels == {KimiOnlySentinel, HealthySentinel}

\* The emitted label fed back as the label of a language-model prediction
\* that is not uncertain.
FedBack ==
    [kimi_pred EXCEPT !.predicted_class = result.final_diagnosis, !.is_uncertain = FALSE]

\* C30: every no-finding label the engine emits, by the uncertain
\* language-model-only branch and by the healthy override, is the same fixed
\* sentinel, and the engine's healthy-alias test recognises it: fed back as
\* the label of a language-model prediction that is not uncertain, with any
\* classifier prediction beside it, it triggers the healthy override.
C30_SentinelRoundTrip ==
    /\ EmitsNoFinding =>
          /\ result.final_diagnosis
                = kimi_only_result([kimi_pred EXCEPT !.is_uncertain = TRUE]).final_diagnosis
          /\ is_kimi_healthy(FedBack)
    /\ (Decision /\ BothPresent /\ ~kimi_pred.is_uncertain
          /\ kimi_pred.predicted_class \in EmittedLabels) =>
          result.reasoning \in HealthyBranches

====
